---------------------------- MODULE Spec2Model ----------------------------
(***************************************************************************)
(* Extreme Value Analysis (coastlib): the EVA object of                    *)
(* coastlib/analyze/extreme.py and its predecessor of the same name in     *)
(* coastlib/coreutils/data_analysis_tools.py, as a state machine.          *)
(*                                                                         *)
(* A series is a sequence of rows [t, v]: t a timestamp in whole hours,    *)
(* v the observed value.  Timestamps of one series are distinct.  The      *)
(* calendar is abstracted to years of YearLen hours.                       *)
(***************************************************************************)
EXTENDS Integers, Sequences, FiniteSets, TLC

(***************************************************************************)
(* Bounds of the model.                                                    *)
(***************************************************************************)
MaxLen == 3
MaxVal == 2
MaxR == 2
YearLen == 2
NumYears == 3
MaxN == 20
MaxExtremes == 10

(***************************************************************************)
(* IEEE-754 binary64 arithmetic on positive numbers, as numpy performs it  *)
(* in the return-period formula.  A mantissa is a pair <<hi, lo>> standing *)
(* for hi * Base + lo with 0 <= lo < Base; a float is [m, e] with value    *)
(* m * 2^e and m of exactly DoublePrec bits (or m = 0).                    *)
(***************************************************************************)
DoublePrec == 53
Base == 2^26

\* F applied to the value of v, v evaluated first
Strict(v, F(_)) == CHOOSE r \in {F(y) : y \in {v}} : TRUE

Pow2(k) == 2^k

\* number of significant bits of 0 <= k < 2^31
SmallLen(k) ==
    IF k >= 2^30 THEN 31
    ELSE CHOOSE n \in 0..30 : k < 2^n /\ (n = 0 \/ 2^(n - 1) <= k)

PNorm(hi, lo) == <<hi + (lo \div Base), lo % Base>>

PGe(p, q) == p[1] > q[1] \/ (p[1] = q[1] /\ p[2] >= q[2])

\* p - q for p >= q
PSub(p, q) ==
    IF p[2] >= q[2]
    THEN <<p[1] - q[1], p[2] - q[2]>>
    ELSE <<p[1] - q[1] - 1, p[2] + Base - q[2]>>

\* number of significant bits
PBitLen(p) == IF p[1] > 0 THEN 26 + SmallLen(p[1]) ELSE SmallLen(p[2])

\* floor(p / 2^k), k < 26
PShr(p, k) ==
    <<p[1] \div Pow2(k), (p[2] \div Pow2(k)) + (p[1] % Pow2(k)) * Pow2(26 - k)>>

\* p * 2^k, the result below 2^57
PShl(p, k) ==
    LET b  == k % 26
        lu == p[2] \div Pow2(26 - b)
        ll == p[2] % Pow2(26 - b)
        s  == <<p[1] * Pow2(b) + lu, ll * Pow2(b)>>
    IN  IF k < 26 THEN s
        ELSE IF k < 52 THEN <<s[1] * Base + s[2], 0>>
        ELSE <<(s[1] * Base + s[2]) * Base, 0>>

FZero == [m |-> <<0, 0>>, e |-> 0]

\* m * 2^e (plus something below the last bit when sticky) to the nearest
\* double, ties to even
FRound(m, e, sticky) ==
    LET L == PBitLen(m)
    IN  IF L = 0 THEN FZero
        ELSE IF L <= DoublePrec
        THEN [m |-> PShl(m, DoublePrec - L), e |-> e - (DoublePrec - L)]
        ELSE LET k    == L - DoublePrec
                 q    == PShr(m, k)
                 rem  == m[2] % Pow2(k)
                 half == Pow2(k - 1)
                 up   == rem > half \/ (rem = half /\ (sticky \/ q[2] % 2 = 1))
                 q1   == IF up THEN PNorm(q[1], q[2] + 1) ELSE q
             IN  IF PBitLen(q1) > DoublePrec
                 THEN [m |-> PShr(q1, 1), e |-> e + k + 1]
                 ELSE [m |-> q1, e |-> e + k]

FromInt(k) == FRound(<<0, k>>, 0, FALSE)

\* n more quotient bits of r / b by shift and subtract: <<quotient, remainder>>
RECURSIVE DivStep(_, _, _)
DivStep(b, n, qr) ==
    IF n = 0 THEN qr
    ELSE LET r2 == PNorm(2 * qr[2][1], 2 * qr[2][2])
             q2 == PNorm(2 * qr[1][1], 2 * qr[1][2])
         IN  Strict(IF PGe(r2, b)
                    THEN <<PNorm(q2[1], q2[2] + 1), PSub(r2, b)>>
                    ELSE <<q2, r2>>,
                    LAMBDA s : DivStep(b, n - 1, s))

\* x / y, y # 0: the quotient of the mantissas to DoublePrec + 2 or + 3 bits
FDivM(xm, xe, ym, ye) ==
    Strict(IF PGe(xm, ym) THEN <<<<0, 1>>, PSub(xm, ym)>> ELSE <<<<0, 0>>, xm>>,
      LAMBDA s0 : Strict(DivStep(ym, 11, s0),
      LAMBDA s1 : Strict(DivStep(ym, 11, s1),
      LAMBDA s2 : Strict(DivStep(ym, 11, s2),
      LAMBDA s3 : Strict(DivStep(ym, 11, s3),
      LAMBDA s4 : Strict(DivStep(ym, 11, s4),
      LAMBDA s5 : FRound(s5[1], xe - ye - 55, s5[2] # <<0, 0>>)))))))

FDiv(x, y) ==
    IF x.m = <<0, 0>> THEN FZero
    ELSE Strict(<<x, y>>, LAMBDA a : FDivM(a[1].m, a[1].e, a[2].m, a[2].e))

\* n * y for an integer 0 < n < 16
FMulInt(n, y) == FRound(PNorm(n * y.m[1], n * y.m[2]), y.e, FALSE)

\* 1 - x for a float 0 <= x < 1 (x = 0 or x >= 1/16)
FOneMinus(x) ==
    IF x.m = <<0, 0>> THEN FromInt(1)
    ELSE FRound(PSub(PShl(<<0, 1>>, 0 - x.e), x.m), x.e, FALSE)

\* the digits of a mantissa in base 2^13, the lowest first
Digit == 2^13

PDigits(p) ==
    <<p[2] % Digit, p[2] \div Digit,
      p[1] % Digit, (p[1] \div Digit) % Digit, p[1] \div (Digit * Digit)>>

\* the sum of a[i] * b[k + 2 - i] over the digits i..5 of a
RECURSIVE Column(_, _, _, _)
Column(a, b, k, i) ==
    IF i > 5 THEN 0
    ELSE (IF k + 2 - i \in 1..5 THEN a[i] * b[k + 2 - i] ELSE 0)
           + Column(a, b, k, i + 1)

\* the digits k..10 of the product of a and b, carry coming in
RECURSIVE ProductDigits(_, _, _, _)
ProductDigits(a, b, k, carry) ==
    IF k > 10 THEN << >>
    ELSE LET c == Column(a, b, k - 1, 1) + carry
         IN  <<c % Digit>> \o ProductDigits(a, b, k + 1, c \div Digit)

\* x * y of two doubles: the exact product of the mantissas, of which the
\* bits from 2^50 on are kept and the others made sticky, rounded
FMul(x, y) ==
    IF x.m = <<0, 0>> \/ y.m = <<0, 0>> THEN FZero
    ELSE LET d  == ProductDigits(PDigits(x.m), PDigits(y.m), 1, 0)
             hi == d[7] + d[8] * Digit + d[9] * Digit * Digit
             lo == d[5] + d[6] * Digit
         IN  FRound(PNorm(4 * hi, 4 * lo + d[4] \div 2^11),
                    x.e + y.e + 50,
                    d[4] % 2^11 # 0 \/ <<d[1], d[2], d[3]>> # <<0, 0, 0>>)

\* how a double x > 0 compares with 1
AgainstOne(x) ==
    IF x.e + DoublePrec <= 0 THEN "below"
    ELSE IF x = FromInt(1) THEN "equal" ELSE "above"

(***************************************************************************)
(* Series, rows and the calendar.                                          *)
(***************************************************************************)
Times == 0..(NumYears * YearLen - 1)
Values == 1..MaxVal
Rows == [t : Times, v : Values]

\* DatetimeIndex.year
Year(t) == t \div YearLen

Range(f) == {f[i] : i \in DOMAIN f}

\* the rows of s at the positions K, in the order of s
SelectAt(s, K) ==
    [j \in 1..Cardinality(K) |->
       s[CHOOSE i \in K : Cardinality({k \in K : k < i}) = j - 1]]

\* the rows of s that satisfy Keep, in the order of s (boolean indexing)
Select(s, Keep(_)) == SelectAt(s, {i \in DOMAIN s : Keep(s[i])})

\* s in ascending order of Key; rows of equal key keep their order
SortBy(s, Key(_)) ==
    LET Before(i) == {j \in DOMAIN s :
                        Key(s[j]) < Key(s[i]) \/ (Key(s[j]) = Key(s[i]) /\ j < i)}
    IN  [p \in DOMAIN s |-> s[CHOOSE i \in DOMAIN s : Cardinality(Before(i)) = p - 1]]

\* DataFrame.sort_index on a datetime index
SortIndex(s) == SortBy(s, LAMBDA x : x.t)

\* DataFrame.sort_values(by=col, ascending=True)
SortValues(s) == SortBy(s, LAMBDA x : x.v)

IsChronological(s) == \A i \in 1..(Len(s) - 1) : s[i].t < s[i + 1].t

\* np.unique(data.index.year)
YearsOf(s) == {Year(s[i].t) : i \in DOMAIN s}

SetMin(S) == CHOOSE x \in S : \A y \in S : x <= y
SetMax(S) == CHOOSE x \in S : \A y \in S : x >= y

\* the years between the first and the last that hold no observation
MissingYears(s) == (SetMin(YearsOf(s))..SetMax(YearsOf(s))) \ YearsOf(s)

(***************************************************************************)
(* The EVA object.  unset names the attributes that hold no value: in      *)
(* extreme.py an attribute that was never assigned (reading it raises      *)
(* AttributeError), in data_analysis_tools.py an attribute that still      *)
(* holds the placeholder string of __init__ (computing with it raises      *)
(* TypeError).  The field of an unset attribute holds a default.           *)
(***************************************************************************)
Unset == "unset"
Placeholder == "NO VALUE! Run the .get_extremes() method first."
FitPlaceholder == "NO VALUE! Run the .fit() method first."

NoError == "none"

NoSummary ==
    [distribution |-> Unset, n |-> 0, N |-> 0, shifted |-> FALSE, u |-> 0,
     bounds |-> FALSE, dropna |-> FALSE]

\* EVA.__init__ of coastlib/analyze/extreme.py: the object built from the
\* caller's df; a DataFrame is kept by reference (and so is sorted by line
\* 47), a Series is converted with to_frame() before the Series is sorted
EVAInit(df, kind) ==
    LET data == IF kind = "DataFrame" THEN SortIndex(df) ELSE df
    IN  [data         |-> data,
         N            |-> Cardinality(YearsOf(data)),
         unset        |-> {"extremes", "threshold", "retvalsum"},
         extremes     |-> << >>,
         method       |-> Unset,
         threshold    |-> 0,
         distribution |-> Unset,
         retvalsum    |-> NoSummary]

\* what line 47, df.sort_index(inplace=True), leaves in the caller's object
CallerAfterInit(df) == SortIndex(df)

\* the warnings __init__ issues, each one the years it names: extreme.py
\* warns of the years that hold no observation (lines 58-60), and
\* data_analysis_tools.py has no such statement
Warnings(version, df) ==
    IF version = "extreme" /\ MissingYears(df) # {} THEN {MissingYears(df)} ELSE {}

\* numbify and the sentinel filters of data_analysis_tools.EVA.__init__
HandleNans(s) ==
    Select(s, LAMBDA x : x.v # 999 /\ x.v = x.v)

\* EVA.__init__ of coastlib/coreutils/data_analysis_tools.py
LegacyInit(df) ==
    [data         |-> HandleNans(df),
     N            |-> Cardinality(YearsOf(df)),
     unset        |-> {"extremes", "threshold", "retvalsum"},
     extremes     |-> << >>,
     method       |-> Placeholder,
     threshold    |-> 0,
     distribution |-> FitPlaceholder,
     retvalsum    |-> NoSummary]

\* self.<attr> = ...
Assigned(self, attr) == self.unset \ {attr}

(***************************************************************************)
(* get_extremes.                                                           *)
(***************************************************************************)
\* the plotting position with N for N + 1
ReturnPeriodOfN(N, n, i) ==
    Strict(FDiv(FromInt(i), FromInt(n)),
      LAMBDA cdf : Strict(FOneMinus(cdf),
      LAMBDA a   : Strict(FMulInt(n, a),
      LAMBDA b   : FDiv(FromInt(N), b))))

\* Weibull plotting position of the extreme of rank i (from 0) among n, in
\* double arithmetic: cdf = i / n, then (N + 1) / (n * (1 - cdf))
ReturnPeriod(N, n, i) ==
    Strict(FDiv(FromInt(i), FromInt(n)),
      LAMBDA cdf : Strict(FOneMinus(cdf),
      LAMBDA a   : Strict(FMulInt(n, a),
      LAMBDA b   : FDiv(FromInt(N + 1), b))))

\* ReturnPeriod over the sizes the series of the model produce, tabulated
\* (@@ makes the table explicit)
ReturnPeriods ==
    [x \in (1..MaxN) \X (1..MaxExtremes) \X (0..(MaxExtremes - 1)) |->
       IF x[3] < x[2] THEN ReturnPeriod(x[1], x[2], x[3]) ELSE FZero] @@ << >>

\* the ranking that closes get_extremes: sort by value, assign the return
\* periods by rank, sort by timestamp
Rank(ext, N) ==
    LET sorted == SortValues(ext)
        n      == Len(sorted)
    IN  SortIndex([i \in 1..n |->
                     [t |-> sorted[i].t, v |-> sorted[i].v,
                      T |-> ReturnPeriods[<<N, n, i - 1>>]]])

\* self.data[self.data[self.col] > u]
Exceedances(data, u) == Select(data, LAMBDA x : x.v > u)

\* self.data[self.data[self.col] >= u] of data_analysis_tools.py
LegacyExceedances(data, u) == Select(data, LAMBDA x : x.v >= u)

\* the forward pass of the naive declustering, from exceedance i on; new
\* holds the events retained so far
RECURSIVE NaiveFrom(_, _, _, _)
NaiveFrom(ex, r, i, new) ==
    IF i > Len(ex) THEN new
    ELSE IF ex[i].t - new[Len(new)].t >= r
    THEN NaiveFrom(ex, r, i + 1, Append(new, ex[i]))
    ELSE IF ex[i].v > new[Len(new)].v
    THEN NaiveFrom(ex, r, i + 1, [new EXCEPT ![Len(new)] = ex[i]])
    ELSE NaiveFrom(ex, r, i + 1, new)

\* a pass that opens a new cluster one time step early
NaiveEarly(ex, r) == NaiveFrom(ex, r - 1, 2, <<ex[1]>>)

\* dmethod == 'naive': the pass starts behind the first exceedance
Naive(ex, r) == NaiveFrom(ex, r, 2, <<ex[1]>>)

\* the loop of data_analysis_tools.py visits the first exceedance again
LegacyDecluster(ex, r) == NaiveFrom(ex, r, 1, <<ex[1]>>)

\* DataFrame.drop_duplicates(col): the first row of every value
DropDuplicates(s) ==
    SelectAt(s, {i \in DOMAIN s : \A j \in 1..(i - 1) : s[j].v # s[i].v})

\* the rows of one year that hold the year's maximum, duplicates dropped
YearMaxima(data, year) ==
    LET rows == DropDuplicates(Select(data, LAMBDA x : Year(x.t) = year))
        top  == SetMax({rows[i].v : i \in DOMAIN rows})
    IN  Select(rows, LAMBDA x : x.v = top)

\* pd.concat of the yearly maxima, years ascending
RECURSIVE ConcatYears(_, _)
ConcatYears(data, years) ==
    IF years = {} THEN << >>
    ELSE LET y == SetMin(years)
         IN  YearMaxima(data, y) \o ConcatYears(data, years \ {y})

BlockMaxima(data) == ConcatYears(data, YearsOf(data))

Outcome(obj, err) == [self |-> obj, raised |-> err]

\* an extraction that, once extremes exist, sifts them instead of the data
ExtremePOTIncremental(self, p) ==
    IF p.extra THEN Outcome(self, "AssertionError")
    ELSE LET from == IF "extremes" \in self.unset THEN self.data ELSE self.extremes
             s1   == [self EXCEPT !.method = "POT", !.threshold = p.u,
                                  !.extremes = Exceedances(from, p.u),
                                  !.unset = self.unset \ {"threshold", "extremes"}]
         IN  IF ~p.decluster
             THEN Outcome([s1 EXCEPT !.extremes = Rank(s1.extremes, self.N)], NoError)
             ELSE IF p.dmethod # "naive" THEN Outcome(s1, "ValueError")
             ELSE IF s1.extremes = << >> THEN Outcome(s1, "IndexError")
             ELSE Outcome([s1 EXCEPT !.extremes =
                                Rank(Naive(s1.extremes, p.r), self.N)], NoError)

\* block maxima that fall back to yearly blocks for an unknown block
ExtremeBMLenient(self, p) ==
    IF p.extra THEN Outcome(self, "AssertionError")
    ELSE LET s1 == [self EXCEPT !.method = "BM"]
         IN  IF p.block \in {"M", "W"} THEN Outcome(s1, "NotImplementedError")
             ELSE Outcome([s1 EXCEPT !.extremes = Rank(BlockMaxima(self.data), self.N),
                                     !.unset = Assigned(self, "extremes")], NoError)

\* get_extremes(method='POT', ...) of extreme.py, lines 85-113 and 139-145
ExtremePOT(self, p) ==
    IF p.extra THEN Outcome(self, "AssertionError")
    ELSE LET s1 == [self EXCEPT !.method = "POT", !.threshold = p.u,
                                !.extremes = Exceedances(self.data, p.u),
                                !.unset = self.unset \ {"threshold", "extremes"}]
         IN  IF ~p.decluster
             THEN Outcome([s1 EXCEPT !.extremes = Rank(s1.extremes, self.N)], NoError)
             ELSE IF p.dmethod # "naive" THEN Outcome(s1, "ValueError")
             ELSE IF s1.extremes = << >> THEN Outcome(s1, "IndexError")
             ELSE Outcome([s1 EXCEPT !.extremes =
                                Rank(Naive(s1.extremes, p.r), self.N)], NoError)

\* get_extremes(method='BM', ...) of extreme.py, lines 115-135 and 139-145
ExtremeBM(self, p) ==
    IF p.extra THEN Outcome(self, "AssertionError")
    ELSE LET s1 == [self EXCEPT !.method = "BM"]
         IN  IF p.block = "Y"
             THEN Outcome([s1 EXCEPT !.extremes = Rank(BlockMaxima(self.data), self.N),
                                     !.unset = Assigned(self, "extremes")], NoError)
             ELSE IF p.block \in {"M", "W"} THEN Outcome(s1, "NotImplementedError")
             ELSE Outcome(s1, "ValueError")

\* EVA.get_extremes of coastlib/analyze/extreme.py
ExtremeGetExtremes(self, p) ==
    IF p.method = "POT" THEN ExtremePOT(self, p)
    ELSE IF p.method = "BM" THEN ExtremeBM(self, p)
    ELSE Outcome(self, "ValueError")

\* get_extremes(method='POT', ...) of data_analysis_tools.py: dmethod is no
\* keyword of this version, and the threshold is recorded last
LegacyPOT(self, p) ==
    LET s0 == [self EXCEPT !.method = "POT"]
    IN  IF p.extra \/ p.dmethod # "naive" THEN Outcome(s0, "AssertionError")
        ELSE LET s1 == [s0 EXCEPT !.extremes = LegacyExceedances(self.data, p.u),
                                  !.unset = Assigned(self, "extremes")]
                 s2 == [s1 EXCEPT !.threshold = p.u,
                                  !.unset = Assigned(s1, "threshold")]
             IN  IF ~p.decluster
                 THEN Outcome([s2 EXCEPT !.extremes = Rank(s1.extremes, self.N)], NoError)
                 ELSE IF s1.extremes = << >> THEN Outcome(s1, "IndexError")
                 ELSE Outcome([s2 EXCEPT !.extremes =
                                    Rank(LegacyDecluster(s1.extremes, p.r), self.N)],
                              NoError)

\* get_extremes(method='BM', ...) of data_analysis_tools.py
LegacyBM(self, p) ==
    LET s0 == [self EXCEPT !.method = "BM"]
    IN  IF p.extra THEN Outcome(s0, "AssertionError")
        ELSE IF p.block = "Y"
        THEN Outcome([s0 EXCEPT !.extremes = Rank(BlockMaxima(self.data), self.N),
                                !.unset = Assigned(self, "extremes")], NoError)
        ELSE IF p.block \in {"M", "W"} THEN Outcome(s0, "NotImplementedError")
        ELSE Outcome(s0, "ValueError")

\* EVA.get_extremes of coastlib/coreutils/data_analysis_tools.py
LegacyGetExtremes(self, p) ==
    IF p.method = "POT" THEN LegacyPOT(self, p)
    ELSE IF p.method = "BM" THEN LegacyBM(self, p)
    ELSE Outcome(self, "ValueError")

(***************************************************************************)
(* fit.  The numerical work of scipy is abstracted: a fitted summary       *)
(* records which family was fitted to how many extremes, whether the       *)
(* threshold was subtracted before the fit and added to the return values, *)
(* and whether confidence bounds and the final dropna() were reached.      *)
(***************************************************************************)
ThresholdShifted == {"Weibull", "Log-normal", "Pearson 3"}
BlockOnly == {"GEV", "Gumbel"}
MonteCarloFamilies == {"GPD", "GEV"}
Families == {"GPD"} \cup BlockOnly \cup ThresholdShifted

FitOutcome(obj, err, ran) == [self |-> obj, raised |-> err, ran |-> ran]

\* self.retvalsum; u is the threshold the return values are shifted by
Summary(self, q, shifted, bounds, done) ==
    [distribution |-> q.distribution,
     n            |-> Len(self.extremes),
     N            |-> self.N,
     shifted      |-> shifted,
     u            |-> IF shifted THEN self.threshold ELSE 0,
     bounds       |-> bounds,
     dropna       |-> done]

WithSummary(s0, q, shifted, bounds, done) ==
    [s0 EXCEPT !.retvalsum = Summary(s0, q, shifted, bounds, done),
               !.unset = Assigned(s0, "retvalsum")]

\* lines 381-432 of extreme.py, once the parameters are fitted: the summary
\* of return values, then the Monte Carlo bounds, then dropna()
ExtremeSummarise(s0, q, shifted) ==
    IF "threshold" \in s0.unset
    THEN FitOutcome(s0, "AttributeError", TRUE)
    ELSE IF ~q.confidence
    THEN FitOutcome(WithSummary(s0, q, shifted, FALSE, TRUE), NoError, TRUE)
    ELSE IF q.distribution \notin MonteCarloFamilies
    THEN FitOutcome(WithSummary(s0, q, shifted, FALSE, FALSE), "ValueError", TRUE)
    ELSE FitOutcome(WithSummary(s0, q, shifted, TRUE, TRUE), NoError, TRUE)

\* scipy.stats.<family>.fit on the extremes, minus the threshold when
\* shifted; lib is what scipy does with an empty sample
ExtremeFitData(s0, q, shifted, lib) ==
    IF "extremes" \in s0.unset \/ (shifted /\ "threshold" \in s0.unset)
    THEN FitOutcome(s0, "AttributeError", FALSE)
    ELSE IF s0.extremes = << >> /\ lib = "raises"
    THEN FitOutcome(s0, "ValueError", TRUE)
    ELSE ExtremeSummarise(s0, q, shifted)

\* EVA.fit of coastlib/analyze/extreme.py
ExtremeFit(self, q, lib) ==
    LET s0 == [self EXCEPT !.distribution = q.distribution]
        d  == q.distribution
    IN  IF d = "GPD"
        THEN IF self.method = Unset THEN FitOutcome(s0, "AttributeError", FALSE)
             ELSE ExtremeFitData(s0, q, self.method = "POT", lib)
        ELSE IF d \in BlockOnly
        THEN IF self.method = Unset THEN FitOutcome(s0, "AttributeError", FALSE)
             ELSE IF self.method # "BM" THEN FitOutcome(s0, "ValueError", FALSE)
             ELSE ExtremeFitData(s0, q, FALSE, lib)
        ELSE IF d \in ThresholdShifted
        THEN ExtremeFitData(s0, q, TRUE, lib)
        ELSE FitOutcome(s0, "ValueError", FALSE)

\* lines 530-570 of data_analysis_tools.py; montefit of GEV reads the
\* undefined name ex
LegacySummarise(s0, q, shifted) ==
    IF ~q.confidence
    THEN FitOutcome(WithSummary(s0, q, shifted, FALSE, TRUE), NoError, TRUE)
    ELSE IF q.distribution \notin MonteCarloFamilies
    THEN FitOutcome(WithSummary(s0, q, shifted, FALSE, FALSE), "ValueError", TRUE)
    ELSE IF q.distribution = "GEV"
    THEN FitOutcome(WithSummary(s0, q, shifted, FALSE, FALSE), "NameError", TRUE)
    ELSE FitOutcome(WithSummary(s0, q, shifted, TRUE, TRUE), NoError, TRUE)

LegacyFitData(s0, q, shifted, lib) ==
    IF "extremes" \in s0.unset \/ (shifted /\ "threshold" \in s0.unset)
    THEN FitOutcome(s0, "TypeError", FALSE)
    ELSE IF s0.extremes = << >> /\ lib = "raises"
    THEN FitOutcome(s0, "ValueError", TRUE)
    ELSE LegacySummarise(s0, q, shifted)

\* EVA.fit of coastlib/coreutils/data_analysis_tools.py: Gumbel is shifted
\* by the threshold here
LegacyFit(self, q, lib) ==
    LET s0 == [self EXCEPT !.distribution = q.distribution]
        d  == q.distribution
    IN  IF d = "GPD"
        THEN LegacyFitData(s0, q, self.method = "POT", lib)
        ELSE IF d \in BlockOnly
        THEN IF self.method # "BM" THEN FitOutcome(s0, "ValueError", FALSE)
             ELSE LegacyFitData(s0, q, d = "Gumbel", lib)
        ELSE IF d \in ThresholdShifted
        THEN LegacyFitData(s0, q, TRUE, lib)
        ELSE FitOutcome(s0, "ValueError", FALSE)

(***************************************************************************)
(* pot_residuals: with decluster=True it extracts once per threshold,      *)
(* through get_extremes, and so replaces the extremes of the object.       *)
(***************************************************************************)
GetExtremesOf(impl, self, p) ==
    IF impl = "extreme" THEN ExtremeGetExtremes(self, p) ELSE LegacyGetExtremes(self, p)

ResidualCall(u, r) ==
    [method |-> "POT", u |-> u, r |-> r, decluster |-> TRUE, dmethod |-> "naive",
     block |-> "Y", extra |-> FALSE]

RECURSIVE ResidualCalls(_, _, _, _, _)
ResidualCalls(impl, self, us, r, i) ==
    IF i > Len(us) THEN Outcome(self, NoError)
    ELSE LET o == GetExtremesOf(impl, self, ResidualCall(us[i], r))
         IN  IF o.raised # NoError THEN o
             ELSE ResidualCalls(impl, o.self, us, r, i + 1)

\* u = u[u <= self.data[self.col].max()]: the candidates that are kept
Candidates(self, a) ==
    LET top == SetMax({self.data[i].v : i \in DOMAIN self.data})
    IN  IF SetMax(Range(a.u)) > top
        THEN SelectAt(a.u, {i \in DOMAIN a.u : a.u[i] <= top})
        ELSE a.u

\* EVA.pot_residuals, up to the plot
PotResidualsOf(impl, self, a) ==
    IF a.decluster THEN ResidualCalls(impl, self, Candidates(self, a), a.r, 1)
    ELSE Outcome(self, NoError)

\* res_ex_sum of the declustered branch, before u[i] is subtracted: the
\* extremes each call of get_extremes leaves, up to a call that raises
RECURSIVE DeclusteredSamples(_, _, _, _, _)
DeclusteredSamples(impl, self, us, r, i) ==
    IF i > Len(us) THEN << >>
    ELSE CHOOSE rest \in
           {IF o.raised # NoError THEN << >>
            ELSE <<o.self.extremes>> \o DeclusteredSamples(impl, o.self, us, r, i + 1) :
              o \in {GetExtremesOf(impl, self, ResidualCall(us[i], r))}} : TRUE

\* res_ex_sum, before u[i] is subtracted: the samples whose mean excess over
\* the i-th candidate is reported; without declustering they are
\* self.data[self.data[self.col] >= u[i]]
ResidualSamples(impl, self, a) ==
    IF a.decluster THEN DeclusteredSamples(impl, self, Candidates(self, a), a.r, 1)
    ELSE [i \in DOMAIN Candidates(self, a) |->
            Select(self.data, LAMBDA x : x.v >= Candidates(self, a)[i])]

\* the local variables u and res_ex_sum of a call of pot_residuals
ResidualFrame(impl, self, a) ==
    [op |-> "pot_residuals", u |-> Candidates(self, a),
     samples |-> ResidualSamples(impl, self, a)]

(***************************************************************************)
(* The caller and one EVA object.  The caller builds a series, constructs  *)
(* the object from it and then calls its methods; last records the latest  *)
(* call and how it ended, frame the local variables of a method that is    *)
(* looping (a threshold search, or the Monte Carlo loop of fit).            *)
(***************************************************************************)
VARIABLES impl, kind, df, self, pc, calls, last, frame

vars == <<impl, kind, df, self, pc, calls, last, frame>>

MaxCalls == 3
MaxExtractions == 2

\* the i-th smallest element of a set of numbers
Nth(S, i) == CHOOSE x \in S : Cardinality({y \in S : y < x}) = i - 1

\* the series with the timestamps T, in chronological order; f gives the
\* values of the samples
SeriesOf(T, f) == [i \in 1..Cardinality(T) |-> [t |-> Nth(T, i), v |-> f[i]]]

Chronological ==
    {SeriesOf(T, f) : T \in {S \in SUBSET Times : Cardinality(S) \in 1..MaxLen},
                      f \in [1..MaxLen -> Values]}

Reverse(s) == [i \in DOMAIN s |-> s[Len(s) + 1 - i]]

\* the series a caller passes: ordered by time, or latest first
Inputs == {IF reversed THEN Reverse(s) ELSE s : s \in Chronological, reversed \in BOOLEAN}

NoArgs == [none |-> TRUE]

\* no method call is in progress
NoFrame == [op |-> "none"]

NoObject == EVAInit(<< >>, "DataFrame")

Call(op, args, raised, ran) == [op |-> op, args |-> args, raised |-> raised, ran |-> ran]

\* get_extremes(method, **kwargs) as callers write it
Args(method, u, r, decluster, dmethod, block, extra) ==
    [method |-> method, u |-> u, r |-> r, decluster |-> decluster,
     dmethod |-> dmethod, block |-> block, extra |-> extra]

\* r only matters with decluster=True, block only with BM; extra stands for
\* a keyword the method does not know
Params ==
    {Args("POT", u, MaxR, FALSE, m, "Y", FALSE) : u \in 0..MaxVal, m \in {"naive", "runs"}}
      \cup {Args("POT", x[1], x[2], TRUE, x[3], "Y", FALSE) :
              x \in (0..MaxVal) \X (1..MaxR) \X {"naive", "runs"}}
      \cup {Args("BM", 0, MaxR, FALSE, "naive", b, e) :
              b \in {"Y", "M", "W", "D"}, e \in BOOLEAN}
      \cup {Args("POT", 0, MaxR, FALSE, "naive", "Y", TRUE)}
      \cup {Args("MAX", 0, MaxR, FALSE, "naive", "Y", e) : e \in BOOLEAN}

\* the calls the life of an object is explored with
CoreParams ==
    {p \in Params : /\ p.u \in {0, MaxVal}
                    /\ p.r = MaxR
                    /\ p.dmethod = "runs" => p.decluster /\ p.u = 0
                    /\ p.block # "W"
                    /\ p.extra => p.method = "POT"}

FitParams ==
    [distribution : Families \cup {"Frechet"}, confidence : BOOLEAN]

\* what scipy's fit does with the sample: an empty one may raise or give nan
LibOutcomes(obj) ==
    IF "extremes" \notin obj.unset /\ obj.extremes = << >>
    THEN {"raises", "nan"} ELSE {"fits"}

ResidualParams ==
    {[u |-> us, decluster |-> TRUE, r |-> 1] : us \in {<<0>>, <<0, 1>>, <<MaxVal + 1>>}}
      \cup {[u |-> us, decluster |-> FALSE, r |-> 1] : us \in {<<0>>, <<0, 1>>}}

\* a record sampled at every time step from 0 on
Regular == {s \in Inputs : {s[i].t : i \in DOMAIN s} = 0..(Len(s) - 1)}

Start(series) ==
    /\ impl \in {"extreme", "data_analysis_tools"}
    /\ kind \in {"DataFrame", "Series"}
    /\ df \in series
    /\ self = NoObject
    /\ pc = "start"
    /\ calls = 0
    /\ last = Call("none", NoArgs, NoError, FALSE)
    /\ frame = NoFrame

Init == Start(Regular)

InitExtract == Start(Inputs)

\* EVA(df, col): without col, df.columns[0] is read, which a Series lacks;
\* frame keeps the warnings the call has issued
Construct ==
    /\ pc = "start"
    /\ \E col \in BOOLEAN :
         LET failed == kind = "Series" /\ ~col
         IN  /\ df' = IF impl = "extreme" THEN CallerAfterInit(df) ELSE df
             /\ self' = IF failed THEN self
                        ELSE IF impl = "extreme" THEN EVAInit(df, kind)
                        ELSE LegacyInit(df)
             /\ pc' = IF failed THEN "failed" ELSE "ready"
             /\ last' = Call("EVA", [col |-> col],
                             IF failed THEN "AttributeError" ELSE NoError, FALSE)
             /\ frame' = [op |-> "EVA",
                          warnings |-> IF failed THEN {} ELSE Warnings(impl, df)]
    /\ UNCHANGED <<impl, kind, calls>>

GetExtremesFrom(P, budget) ==
    /\ pc = "ready"
    /\ calls < budget
    /\ \E p \in P :
         LET o == GetExtremesOf(impl, self, p)
         IN  /\ self' = o.self
             /\ last' = Call("get_extremes", p, o.raised, FALSE)
    /\ calls' = calls + 1
    /\ UNCHANGED <<impl, kind, df, pc, frame>>

GetExtremes == GetExtremesFrom(CoreParams, MaxCalls)

Extract == GetExtremesFrom(Params, MaxExtractions)

Fit ==
    /\ pc = "ready"
    /\ calls < MaxCalls
    /\ \E q \in FitParams, lib \in LibOutcomes(self) :
         LET o == IF impl = "extreme" THEN ExtremeFit(self, q, lib)
                  ELSE LegacyFit(self, q, lib)
         IN  /\ self' = o.self
             /\ last' = Call("fit", q, o.raised, o.ran)
    /\ calls' = calls + 1
    /\ UNCHANGED <<impl, kind, df, pc, frame>>

PotResiduals ==
    /\ pc = "ready"
    /\ calls < MaxCalls
    /\ \E a \in ResidualParams :
         LET o == PotResidualsOf(impl, self, a)
         IN  /\ self' = o.self
             /\ last' = Call("pot_residuals", a, o.raised, FALSE)
             /\ frame' = ResidualFrame(impl, self, a)
    /\ calls' = calls + 1
    /\ UNCHANGED <<impl, kind, df, pc>>

Next == Construct \/ GetExtremes \/ Fit \/ PotResiduals

Spec == Init /\ [][Next]_vars

NextExtract == Construct \/ Extract

SpecExtract == InitExtract /\ [][NextExtract]_vars

(***************************************************************************)
(* The ranking that closes get_extremes, on its own: n extremes of a       *)
(* record of N years, as an extraction leaves them before line 140.        *)
(***************************************************************************)
Unranked(n) == [i \in 1..n |-> [t |-> i - 1, v |-> n + 1 - i]]

InitRank ==
    /\ impl \in {"extreme", "data_analysis_tools"}
    /\ kind = "DataFrame"
    /\ df = << >>
    /\ \E N \in 1..MaxN, n \in 1..MaxExtremes :
         self = [NoObject EXCEPT !.N = N, !.extremes = Unranked(n),
                                 !.unset = {"threshold", "retvalsum"}]
    /\ pc = "ranking"
    /\ calls = 0
    /\ last = Call("none", NoArgs, NoError, FALSE)
    /\ frame = NoFrame

RankExtremes ==
    /\ pc = "ranking"
    /\ self' = [self EXCEPT !.extremes = Rank(self.extremes, self.N)]
    /\ pc' = "ready"
    /\ last' = Call("rank", NoArgs, NoError, FALSE)
    /\ UNCHANGED <<impl, kind, df, calls, frame>>

SpecRank == InitRank /\ [][RankExtremes]_vars

(***************************************************************************)
(* The threshold advisors.  empirical_threshold searches upwards from       *)
(* u_start, an extraction at a time; frame holds its local variables while  *)
(* it runs and the thresholds it returned afterwards.  Thresholds and       *)
(* steps are whole numbers here, so that u += u_step is exact.              *)
(***************************************************************************)
MaxLevel == 3
MaxStart == 1
MaxStep == 2
MaxAdvice == 1

\* int(np.sqrt(n))
SqrtTarget(n) == CHOOSE k \in 0..n : k * k <= n /\ (k + 1) * (k + 1) > n

\* int((n ** (2 / 3)) / np.log(np.log(n))), as Python and numpy evaluate it:
\* log(log(1)) is -inf and the quotient -0.0; log(log(2)) is negative
LogTargets == <<0, -4, 22, 7, 6, 5, 5, 5, 5, 5, 5, 5>>

LogTarget(n) == LogTargets[n]

\* ten times np.percentile(values, 90): linear interpolation between the
\* two order statistics around position 0.9 * (n - 1)
Percentile90(data) ==
    LET sorted == SortValues(data)
        n      == Len(data)
        lo     == (9 * (n - 1)) \div 10 + 1
        frac   == (9 * (n - 1)) % 10
        hi     == IF lo < n THEN lo + 1 ELSE lo
    IN  10 * sorted[lo].v + frac * (sorted[hi].v - sorted[lo].v)

\* the extraction the search makes at threshold u
SearchCall(a, u) == Args("POT", u, a.r, a.decluster, "naive", "Y", FALSE)

\* what u is raised by: line 231 adds u_start in the declustered search of
\* the square-root rule, every other search adds u_step
Increment(rule, a) ==
    IF rule = "sqrt" /\ a.decluster THEN a.u_start ELSE a.u_step

\* u += increment.  Every threshold above the largest sample extracts the
\* same empty set, so the model keeps the first of them: a search that is
\* still running there runs forever.
Advance(u, inc, data) ==
    IF u > SetMax({data[i].v : i \in DOMAIN data}) THEN u ELSE u + inc

SearchFrame(rule, at, u, k, a, tres, before) ==
    [op |-> "empirical_threshold", rule |-> rule, at |-> at, u |-> u, k |-> k,
     a |-> a, tres |-> tres, before |-> before]

\* k and u of a rule are set and the first extraction is made
BeginRule(rule, a, tres, before) ==
    \E k \in {IF rule = "sqrt" THEN SqrtTarget(Len(self.data))
                ELSE LogTarget(Len(self.data))},
       o \in {GetExtremesOf(impl, self, SearchCall(a, a.u_start))} :
         /\ self' = o.self
         /\ IF o.raised = NoError
            THEN /\ frame' = SearchFrame(rule, "test", a.u_start, k, a, tres, before)
                 /\ pc' = "searching"
                 /\ UNCHANGED <<last, calls>>
            ELSE /\ frame' = SearchFrame(rule, "raised", a.u_start, k, a, tres, before)
                 /\ pc' = "ready"
                 /\ last' = Call("empirical_threshold", a, o.raised, FALSE)
                 /\ calls' = calls + 1

SearchParams ==
    [decluster : BOOLEAN, r : {1}, u_start : 0..MaxStart, u_step : 1..MaxStep]

\* empirical_threshold is called: the 90% rule, then the square-root rule
\* up to its first extraction
EmpiricalThreshold ==
    /\ pc = "ready"
    /\ calls < MaxAdvice
    /\ \E a \in SearchParams :
         BeginRule("sqrt", a, <<Percentile90(self.data)>>, self)
    /\ UNCHANGED <<impl, kind, df>>

\* while len(self.extremes) > k; behind the loop the threshold is kept and
\* the next rule begins, or the thresholds are returned
SearchTest ==
    /\ pc = "searching"
    /\ frame.at = "test"
    /\ IF Len(self.extremes) > frame.k
       THEN /\ frame' = [frame EXCEPT !.at = "body"]
            /\ UNCHANGED <<self, pc, last, calls>>
       ELSE IF frame.rule = "sqrt"
       THEN BeginRule("log", frame.a, Append(frame.tres, frame.u), frame.before)
       ELSE /\ frame' = [frame EXCEPT !.at = "returned",
                                      !.tres = Append(frame.tres, frame.u)]
            /\ pc' = "ready"
            /\ last' = Call("empirical_threshold", frame.a, NoError, FALSE)
            /\ calls' = calls + 1
            /\ UNCHANGED self
    /\ UNCHANGED <<impl, kind, df>>

\* the body of the loop: u is raised and the extremes are extracted again
SearchBody ==
    /\ pc = "searching"
    /\ frame.at = "body"
    /\ \E u \in {Advance(frame.u, Increment(frame.rule, frame.a), self.data)} :
         \E o \in {GetExtremesOf(impl, self, SearchCall(frame.a, u))} :
           /\ self' = o.self
           /\ IF o.raised = NoError
              THEN /\ frame' = [frame EXCEPT !.at = "test", !.u = u]
                   /\ UNCHANGED <<pc, last, calls>>
              ELSE /\ frame' = [frame EXCEPT !.at = "raised", !.u = u]
                   /\ pc' = "ready"
                   /\ last' = Call("empirical_threshold", frame.a, o.raised, FALSE)
                   /\ calls' = calls + 1
    /\ UNCHANGED <<impl, kind, df>>

\* par_stab_plot: an extraction and a GPD fit per threshold; lib is what
\* scipy does with an empty sample
RECURSIVE StabilityCalls(_, _, _, _, _, _)
StabilityCalls(version, obj, us, a, lib, i) ==
    IF i > Len(us) THEN Outcome(obj, NoError)
    ELSE CHOOSE end \in
           {IF o.raised # NoError THEN o
            ELSE IF o.self.extremes = << >> /\ lib = "raises"
            THEN Outcome(o.self, "ValueError")
            ELSE StabilityCalls(version, o.self, us, a, lib, i + 1) :
              o \in {GetExtremesOf(version, obj,
                                   Args("POT", us[i], a.r, a.decluster,
                                        "naive", "Y", FALSE))}} : TRUE

\* thresholds above the largest sample are left out; the version of
\* data_analysis_tools.py has no distribution keyword
ParStabPlotOf(version, obj, a, lib) ==
    LET top == SetMax({obj.data[i].v : i \in DOMAIN obj.data})
        us  == IF SetMax(Range(a.u)) > top
               THEN SelectSeq(a.u, LAMBDA x : x <= top) ELSE a.u
    IN  IF a.distribution # "GPD"
        THEN Outcome(obj, IF version = "extreme" THEN NoError ELSE "TypeError")
        ELSE StabilityCalls(version, obj, us, a, lib, 1)

StabilityParams ==
    {[u |-> us, decluster |-> d, r |-> 1, distribution |-> "GPD"] :
        us \in {<<0>>, <<1, MaxLevel>>}, d \in BOOLEAN}
      \cup {[u |-> <<0>>, decluster |-> TRUE, r |-> 1, distribution |-> "GEV"]}

ParStabPlot ==
    /\ pc = "ready"
    /\ calls < MaxAdvice
    /\ \E a \in StabilityParams, lib \in {"raises", "nan"} :
         \E o \in {ParStabPlotOf(impl, self, a, lib)} :
           /\ self' = o.self
           /\ last' = Call("par_stab_plot", a, o.raised, FALSE)
    /\ calls' = calls + 1
    /\ UNCHANGED <<impl, kind, df, pc, frame>>

\* pot_residuals, as the advisors are explored
Residuals ==
    /\ pc = "ready"
    /\ calls < MaxAdvice
    /\ \E a \in ResidualParams :
         \E o \in {PotResidualsOf(impl, self, a)} :
           /\ self' = o.self
           /\ last' = Call("pot_residuals", a, o.raised, FALSE)
           /\ frame' = ResidualFrame(impl, self, a)
    /\ calls' = calls + 1
    /\ UNCHANGED <<impl, kind, df, pc>>

\* records of up to MaxLen samples with values up to MaxLevel, in
\* chronological order, passed as a DataFrame
Soundings ==
    {SeriesOf(T, f) : T \in {S \in SUBSET (0..(MaxLen + 1)) : Cardinality(S) \in 1..MaxLen},
                      f \in [1..MaxLen -> 1..MaxLevel]}

InitAdvise ==
    /\ impl \in {"extreme", "data_analysis_tools"}
    /\ kind = "DataFrame"
    /\ df \in Soundings
    /\ self = NoObject
    /\ pc = "start"
    /\ calls = 0
    /\ last = Call("none", NoArgs, NoError, FALSE)
    /\ frame = NoFrame

NextAdvise ==
    Construct \/ EmpiricalThreshold \/ SearchTest \/ SearchBody \/ ParStabPlot \/ Residuals

SpecAdvise == InitAdvise /\ [][NextAdvise]_vars

\* a call that has begun goes on: the loop of the search is sequential code
SpecAdviseFair == SpecAdvise /\ WF_vars(SearchTest) /\ WF_vars(SearchBody)

(***************************************************************************)
(* fit, a synthetic curve at a time.  The return periods are a grid of     *)
(* GridLen points; a curve gives a return value per point.  What scipy     *)
(* computes is a choice among finite values, nan and inf.  frame holds     *)
(* the local variables of the call: rv, uplims, sims, mrv and x.           *)
(***************************************************************************)
GridLen == 2
MaxCurve == 2
MaxTrials == 2

NaN == -1

Inf == MaxCurve + 1

CurveValues == {NaN} \cup (0..MaxCurve) \cup {Inf}

Curves == [1..GridLen -> CurveValues]

\* x > lim of numpy, for one entry: a comparison with nan is False
Exceeds(x, lim) == x # NaN /\ lim # NaN /\ x > lim

\* a filter that keeps every curve
AcceptedAlways(x, uplims) == TRUE

\* (x > uplims).sum() == 0
Accepted(x, uplims) == \A j \in 1..GridLen : ~Exceeds(x[j], uplims[j])

\* the rows of self.retvalsum as line 385 makes them
ValueRows(rv) == [j \in 1..GridLen |-> [T |-> j, rv |-> rv[j]]]

\* the square of norm.ppf((1 + confidence) / 2) for the confidence 0.95,
\* as a ratio: 1.959963984540054 ** 2 = 3.841458820694124
ZSquared == <<3841459, 1000000>>

RECURSIVE Total(_, _)
Total(column, i) ==
    IF i > Len(column) THEN 0 ELSE column[i] + Total(column, i + 1)

\* norm.fit(x) on the k values the retained curves have at one return
\* period, kept exact: sum is k times the mean, and var is the square of
\* k times the standard deviation
Moments(column) ==
    LET k == Len(column)
        squares == [i \in 1..k |-> column[i] * column[i]]
    IN  [k |-> k, sum |-> Total(column, 1),
         var |-> k * Total(squares, 1) - Total(column, 1) * Total(column, 1)]

\* a bound that is nan
NoBound == [nan |-> TRUE, k |-> 0, sum |-> 0, var |-> 0, side |-> 0]

\* the number (sum + side * z * sqrt(var)) / k
Bound(m, side) ==
    [nan |-> FALSE, k |-> m.k, sum |-> m.sum, var |-> m.var, side |-> side]

\* norm.interval(alpha=confidence, loc=mean, scale=std): nan when a value is
\* nan or inf, and when the standard deviation is 0 (scipy wants scale > 0)
Interval(column) ==
    IF (\E i \in DOMAIN column : column[i] \in {NaN, Inf}) \/ Moments(column).var = 0
    THEN [lower |-> NoBound, upper |-> NoBound]
    ELSE [lower |-> Bound(Moments(column), -1), upper |-> Bound(Moments(column), 1)]

\* v <= z * sqrt(var), for integers v and var
WithinSpread(v, var) == v <= 0 \/ v * v * ZSquared[2] <= ZSquared[1] * var

\* lower <= value, for a finite value and a bound that is a number
AtLeast(value, lower) == WithinSpread(lower.sum - lower.k * value, lower.var)

\* value <= upper, for a finite value and a bound that is a number
AtMost(value, upper) == WithinSpread(upper.k * value - upper.sum, upper.var)

\* the rows with the columns Lower and Upper of lines 429-430
BoundedRows(rv, mrv) ==
    [j \in 1..GridLen |->
       LET b == Interval([i \in DOMAIN mrv |-> mrv[i][j]])
       IN  [T |-> j, rv |-> rv[j], lower |-> b.lower, upper |-> b.upper]]

\* nan in any column of the row
HasNaN(row) ==
    \/ row.rv = NaN
    \/ "lower" \in DOMAIN row /\ (row.lower.nan \/ row.upper.nan)

\* nan or inf in any column of the row
NonFinite(row) ==
    \/ row.rv \in {NaN, Inf}
    \/ "lower" \in DOMAIN row /\ (row.lower.nan \/ row.upper.nan)

\* DataFrame.dropna(): the rows that hold a nan are dropped
DropNa(rows) == SelectSeq(rows, LAMBDA row : ~HasNaN(row))

\* the summary with its rows
Detailed(s, rows) ==
    [distribution |-> s.distribution, n |-> s.n, N |-> s.N,
     shifted |-> s.shifted, u |-> s.u, bounds |-> s.bounds,
     dropna |-> s.dropna, rows |-> rows]

FitOf(version, obj, q, lib) ==
    IF version = "extreme" THEN ExtremeFit(obj, q, lib) ELSE LegacyFit(obj, q, lib)

\* discarded tells whether the filter has dropped a curve in this call
FitFrame(a, final, rv, uplims, at, sims, mrv, x) ==
    [op |-> "fit", a |-> a, final |-> final, rv |-> rv, uplims |-> uplims,
     at |-> at, sims |-> sims, mrv |-> mrv, x |-> x, discarded |-> FALSE]

\* fit(distribution, confidence, k, trunc)
TrialParams ==
    [distribution : {"GPD", "GEV", "Gumbel"}, confidence : BOOLEAN,
     k : 1..MaxTrials, trunc : BOOLEAN]

\* ret_val(rp, ...) and ret_val(k * rp, ...) as scipy may evaluate them
\* the curve with the value a at the shortest return period and b elsewhere
Curve(a, b) == [j \in 1..GridLen |-> IF j = 1 THEN a ELSE b]

PointEstimates ==
    {Curve(0, MaxCurve), Curve(NaN, 1), Curve(1, Inf), Curve(NaN, NaN)}

UpperLimits == {Curve(1, MaxCurve), Curve(0, 1), Curve(NaN, Inf)}

\* a quantile grows with the return period: where both are numbers, the
\* value at k * rp is not below the value at rp
Above(rv, lims) ==
    \A j \in DOMAIN lims :
       rv[j] \in 0..MaxCurve /\ lims[j] \in 0..MaxCurve => rv[j] <= lims[j]

\* the call up to the loop of line 416 or 422: the family is dispatched,
\* the parameters are fitted, the summary of return values is assigned,
\* sims = 0 and mrv = [].  A call without confidence, or one that fails,
\* ends here.
FitBegin ==
    /\ pc = "ready"
    /\ calls < 1
    /\ \E a \in TrialParams, lib \in LibOutcomes(self), rv \in PointEstimates :
       \E lims \in IF a.trunc THEN {l \in UpperLimits : Above(rv, l)} ELSE {<< >>} :
       \E o \in {FitOf(impl, self,
                       [distribution |-> a.distribution, confidence |-> a.confidence],
                       lib)} :
         IF o.raised = NoError /\ o.self.retvalsum.bounds
         THEN /\ self' = [o.self EXCEPT !.retvalsum =
                            Detailed([o.self.retvalsum EXCEPT !.bounds = FALSE,
                                                              !.dropna = FALSE],
                                     ValueRows(rv))]
              /\ frame' = FitFrame(a, o.self.retvalsum, rv, lims, "draw", 0, << >>, << >>)
              /\ pc' = "sampling"
              /\ UNCHANGED <<last, calls>>
         ELSE /\ self' = IF o.self.retvalsum = self.retvalsum THEN o.self
                         ELSE [o.self EXCEPT !.retvalsum =
                                 Detailed(@, IF o.self.retvalsum.dropna
                                             THEN DropNa(ValueRows(rv))
                                             ELSE ValueRows(rv))]
              /\ frame' = FitFrame(a, o.self.retvalsum, rv, lims, "ended", 0, << >>, << >>)
              /\ last' = Call("fit", a, o.raised, o.ran)
              /\ calls' = calls + 1
              /\ UNCHANGED pc
    /\ UNCHANGED <<impl, kind, df>>

\* while sims < k: x = montefit(), which may fail in scipy (a draw of no
\* synthetic exceedance leaves an empty sample to fit); without trunc the
\* curve is kept at once
Draw ==
    /\ pc = "sampling"
    /\ frame.at = "draw"
    /\ frame.sims < frame.a.k
    /\ \/ \E x \in Curves :
            /\ frame' = IF frame.a.trunc
                        THEN [frame EXCEPT !.at = "test", !.x = x]
                        ELSE [frame EXCEPT !.mrv = Append(@, x), !.sims = @ + 1]
            /\ UNCHANGED <<pc, last, calls>>
       \/ /\ frame' = [frame EXCEPT !.at = "ended"]
          /\ pc' = "ready"
          /\ last' = Call("fit", frame.a, "ValueError", TRUE)
          /\ calls' = calls + 1
    /\ UNCHANGED <<impl, kind, df, self>>

\* if (x > uplims).sum() == 0: mrv.extend([x]); sims += 1
Keep ==
    /\ pc = "sampling"
    /\ frame.at = "test"
    /\ frame' = IF Accepted(frame.x, frame.uplims)
                THEN [frame EXCEPT !.at = "draw", !.x = << >>,
                                   !.mrv = Append(@, frame.x), !.sims = @ + 1]
                ELSE [frame EXCEPT !.at = "draw", !.x = << >>, !.discarded = TRUE]
    /\ UNCHANGED <<impl, kind, df, self, pc, last, calls>>

\* behind the loop: the bounds from the retained curves, then dropna.
\* Given a value that is not finite, norm.fit computes nan in one release
\* of scipy and raises RuntimeError in another.
FitEnd ==
    /\ pc = "sampling"
    /\ frame.at = "draw"
    /\ frame.sims >= frame.a.k
    /\ \/ /\ self' = [self EXCEPT !.retvalsum =
                        Detailed(frame.final,
                                 IF frame.final.dropna
                                 THEN DropNa(BoundedRows(frame.rv, frame.mrv))
                                 ELSE BoundedRows(frame.rv, frame.mrv))]
          /\ last' = Call("fit", frame.a, NoError, TRUE)
       \/ /\ \E i \in DOMAIN frame.mrv, j \in 1..GridLen : frame.mrv[i][j] \in {NaN, Inf}
          /\ last' = Call("fit", frame.a, "RuntimeError", TRUE)
          /\ UNCHANGED self
    /\ frame' = [frame EXCEPT !.at = "ended"]
    /\ pc' = "ready"
    /\ calls' = calls + 1
    /\ UNCHANGED <<impl, kind, df>>

\* the extractions that leave the objects fit is explored on
FitPreludes ==
    {Args("POT", u, MaxR, FALSE, "naive", "Y", FALSE) : u \in {0, MaxVal}}
      \cup {Args("BM", 0, MaxR, FALSE, "naive", "Y", FALSE)}

\* an object built from a record of two samples, after one extraction
InitFit ==
    /\ impl \in {"extreme", "data_analysis_tools"}
    /\ kind = "DataFrame"
    /\ df = <<[t |-> 0, v |-> 1], [t |-> 1, v |-> MaxVal]>>
    /\ \E p \in FitPreludes :
         self = GetExtremesOf(impl, IF impl = "extreme" THEN EVAInit(df, kind)
                                    ELSE LegacyInit(df), p).self
    /\ pc = "ready"
    /\ calls = 0
    /\ last = Call("none", NoArgs, NoError, FALSE)
    /\ frame = NoFrame

NextFit == FitBegin \/ Draw \/ Keep \/ FitEnd

SpecFit == InitFit /\ [][NextFit]_vars

\* a call that has begun goes on: the loop is sequential code
SpecFitFair == SpecFit /\ WF_vars(Draw) /\ WF_vars(Keep) /\ WF_vars(FitEnd)

(***************************************************************************)
(* ret_val, the closure fit defines for GPD on POT extremes, on its own:   *)
(* u + genpareto.ppf(1 - 1 / (rate * t), ...) in doubles.  Of the quantile  *)
(* argument the sign is kept, which decides what scipy's ppf returns: nan  *)
(* below 0, the lower end of the support (loc) at 0, more than loc above.  *)
(***************************************************************************)
\* the sign of 1 - 1 / (rate * t)
QuantileArgument(rate, t) ==
    LET w == AgainstOne(FDiv(FromInt(1), FMul(rate, t)))
    IN  IF w = "above" THEN "negative"
        ELSE IF w = "equal" THEN "zero" ELSE "positive"

\* a quantile function that gives loc for an argument below 0
GenParetoPpfClamped(q) ==
    IF q \in {"negative", "zero"} THEN "loc" ELSE "above loc"

GenParetoPpf(q) ==
    IF q = "negative" THEN "nan" ELSE IF q = "zero" THEN "loc" ELSE "above loc"

\* ret_val(t, param, rate, u) of lines 341-342
RetVal(t, rate, u) == [u |-> u, ppf |-> GenParetoPpf(QuantileArgument(rate, t))]

\* rate = len(self.extremes) / self.N
RateOf(obj) == FDiv(FromInt(Len(obj.extremes)), FromInt(obj.N))

\* an object that holds n POT extremes of a record of N years
InitInvert ==
    /\ impl \in {"extreme", "data_analysis_tools"}
    /\ kind = "DataFrame"
    /\ df = << >>
    /\ \E N \in 1..MaxN, n \in 1..MaxExtremes, u \in {0, MaxVal} :
         self = [NoObject EXCEPT !.N = N, !.extremes = Unranked(n),
                                 !.method = "POT", !.threshold = u,
                                 !.distribution = "GPD",
                                 !.unset = {"retvalsum"}]
    /\ pc = "fitted"
    /\ calls = 0
    /\ last = Call("none", NoArgs, NoError, FALSE)
    /\ frame = NoFrame

\* the return value at a return period: 1 / rate, or a period of the grid
Invert ==
    /\ pc = "fitted"
    /\ \E rate \in {RateOf(self)} :
       \E t \in {FDiv(FromInt(1), rate), FromInt(2), FromInt(10)} :
         frame' = [op |-> "ret_val", t |-> t, rate |-> rate,
                   value |-> RetVal(t, rate, self.threshold)]
    /\ pc' = "ready"
    /\ UNCHANGED <<impl, kind, df, self, calls, last>>

SpecInvert == InitInvert /\ [][Invert]_vars

(***************************************************************************)
(* fit over the grid of return periods: the rows of the summary, the       *)
(* curves of the Monte Carlo trials that were retained, and dropna.  Each  *)
(* retained curve comes from a Poisson draw _lex of the number of          *)
(* synthetic exceedances and has the rate _lex / N.                        *)
(***************************************************************************)
\* return periods of the grid of line 382
Grid == <<2, 5, 10, 25>>

\* ret_val(rp, ...) for the rate n / N, above the threshold: a rate of 0
\* leaves the quantile argument -inf and the value nan
GridValues ==
    [x \in (0..MaxExtremes) \X (1..MaxN) \X Range(Grid) |->
       IF x[1] = 0 THEN "nan"
       ELSE RetVal(FromInt(x[3]), FDiv(FromInt(x[1]), FromInt(x[2])), 0).ppf] @@ << >>

\* montefit of lines 391-397 at the return period T, for a draw of lex
\* synthetic exceedances
CurveAt(lex, N, T, u) == [u |-> u, ppf |-> GridValues[<<lex, N, T>>]]

\* norm.fit and norm.interval on the values of the retained curves at one
\* return period: nan when a value is nan, and when the standard deviation
\* is 0, which it is for a single curve and for curves that all give loc
\* (two values above loc, drawn from a continuous distribution, differ)
GridBound(column) ==
    IF \/ \E i \in DOMAIN column : column[i].ppf = "nan"
       \/ Len(column) < 2
       \/ \A i \in DOMAIN column : column[i].ppf = "loc"
    THEN "nan" ELSE "finite"

\* self.retvalsum of lines 384-386 and, with bounds, of lines 429-430
GridRows(obj, draws, bounds) ==
    [j \in DOMAIN Grid |->
       IF bounds
       THEN [T |-> Grid[j], rv |-> CurveAt(Len(obj.extremes), obj.N, Grid[j], obj.threshold),
             bound |-> GridBound([i \in DOMAIN draws |->
                                    CurveAt(draws[i], obj.N, Grid[j], obj.threshold)])]
       ELSE [T |-> Grid[j], rv |-> CurveAt(Len(obj.extremes), obj.N, Grid[j], obj.threshold)]]

\* self.retvalsum.dropna(inplace=True) of line 432
DropUndefined(rows) ==
    SelectSeq(rows, LAMBDA row :
                ~(row.rv.ppf = "nan" \/ ("bound" \in DOMAIN row /\ row.bound = "nan")))

\* a retained curve holds a nan
Undefined(obj, draws) ==
    \E i \in DOMAIN draws, j \in DOMAIN Grid :
       CurveAt(draws[i], obj.N, Grid[j], obj.threshold).ppf = "nan"

\* fit(distribution='GPD', confidence, k) on the object: lib is what scipy
\* does with a synthetic sample that is empty and with values that are not
\* finite, which is to raise in one release and to compute nan in another
FitGridOf(obj, q, draws, lib) ==
    IF q.confidence /\ lib = "raises" /\ Undefined(obj, draws)
    THEN FitOutcome([WithSummary(obj, q, TRUE, FALSE, FALSE) EXCEPT !.retvalsum =
                       Detailed(@, GridRows(obj, draws, FALSE))],
                    IF \E i \in DOMAIN draws : draws[i] = 0
                    THEN "ValueError" ELSE "RuntimeError", TRUE)
    ELSE FitOutcome([WithSummary(obj, q, TRUE, q.confidence, TRUE) EXCEPT !.retvalsum =
                       Detailed(@, DropUndefined(GridRows(obj, draws, q.confidence)))],
                    NoError, TRUE)

\* frame keeps _lex of the curves that were retained
FitGrid ==
    /\ pc = "fitted"
    /\ \E confidence \in BOOLEAN, lib \in {"raises", "nan"} :
       \E k \in IF confidence THEN 1..MaxTrials ELSE {0} :
       \E draws \in [1..k -> 0..MaxExtremes] :
       \E o \in {FitGridOf(self, [distribution |-> "GPD", confidence |-> confidence],
                           draws, lib)} :
         /\ self' = o.self
         /\ last' = Call("fit", [distribution |-> "GPD", confidence |-> confidence,
                                 k |-> k], o.raised, o.ran)
         /\ frame' = [op |-> "fit", at |-> "grid", draws |-> draws]
    /\ pc' = "ready"
    /\ calls' = calls + 1
    /\ UNCHANGED <<impl, kind, df>>

SpecGrid == InitInvert /\ [][FitGrid]_vars

(***************************************************************************)
(* Properties.                                                             *)
(***************************************************************************)
Extracted == last.op = "get_extremes" /\ last.raised = NoError

Ranked == last.op = "rank"

\* the rank, from 0, of extreme k among ext by value
RankOf(ext, k) == Cardinality({j \in DOMAIN ext : ext[j].v < ext[k].v})

\* the double nearest to a / b
Quotient(a, b) == FDiv(FromInt(a), FromInt(b))

\* the distance of two positive doubles, in units of the last place of the
\* one with the smaller exponent
Ulps(x, y) ==
    LET a == IF x.e > y.e THEN PShl(x.m, x.e - y.e) ELSE x.m
        b == IF y.e > x.e THEN PShl(y.m, y.e - x.e) ELSE y.m
    IN  IF PGe(a, b) THEN PSub(a, b) ELSE PSub(b, a)

\* the double that follows x
NextUp(x) == [m |-> PNorm(x.m[1], x.m[2] + 1), e |-> x.e]

\* C5 as the specification states it: the extreme of rank i among n gets
\* exactly T = (N+1)/(n-i), so the largest gets exactly N+1 and the smallest
\* (N+1)/n.
C5_ExactReturnPeriods ==
    Ranked =>
      \A k \in DOMAIN self.extremes :
         self.extremes[k].T =
           Quotient(self.N + 1, Len(self.extremes) - RankOf(self.extremes, k))

\* C5, amended: the extreme of rank i among n gets the double that
\* (N+1)/(n*(1 - i/n)) evaluates to, which is within 4 units in the last
\* place of (N+1)/(n-i) and is exactly the double (N+1)/n for the smallest
\* extreme (i = 0).
C5_RoundedReturnPeriods ==
    Ranked =>
      \A k \in DOMAIN self.extremes :
         LET n == Len(self.extremes)
             i == RankOf(self.extremes, k)
             T == self.extremes[k].T
             d == Ulps(T, Quotient(self.N + 1, n - i))
         IN  /\ T = ReturnPeriods[<<self.N, n, i>>]
             /\ d[1] = 0 /\ d[2] <= 4
             /\ i = 0 => T = Quotient(self.N + 1, n)

\* N = 20 and n = 10: the smallest extreme gets 2.1, the largest the double
\* after 21 (21.000000000000004)
C5_Witness ==
    /\ Ranked /\ self.N = 20 /\ Len(self.extremes) = 10
    /\ \E k \in DOMAIN self.extremes :
         /\ RankOf(self.extremes, k) = 0
         /\ self.extremes[k].T = Quotient(21, 10)
    /\ \E k \in DOMAIN self.extremes :
         /\ RankOf(self.extremes, k) = 9
         /\ self.extremes[k].T = NextUp(FromInt(21))

\* the caller's samples, as rows of the series in any order
Samples == Range(df)

\* the extremes of the object without their return periods
Events == {[t |-> e.t, v |-> e.v] : e \in Range(self.extremes)}

PeaksOverThreshold(declustered) ==
    /\ Extracted
    /\ last.args.method = "POT"
    /\ last.args.decluster = declustered

\* C1: after a POT extraction without declustering every extreme is
\* strictly greater than u, and every sample of the series strictly greater
\* than u is an extreme (a sample equal to u is never extracted).
C1_StrictlyAboveThreshold ==
    PeaksOverThreshold(FALSE) =>
      /\ \A e \in Events : e.v > last.args.u
      /\ \A x \in Samples : x.v > last.args.u => x \in Events

\* C2: after a POT extraction with naive declustering of a chronologically
\* ordered series, any two distinct retained events are at least r apart.
C2_MinimumSeparation ==
    (PeaksOverThreshold(TRUE) /\ IsChronological(self.data)) =>
      \A a, b \in Events : a # b => (a.t - b.t >= last.args.r \/ b.t - a.t >= last.args.r)

\* three exceedances, the second replaced the first as the peak of its
\* cluster, the third opened a cluster of its own
C2_Witness ==
    /\ PeaksOverThreshold(TRUE) /\ IsChronological(self.data)
    /\ last.args.r > 1
    /\ Cardinality(Events) = 2
    /\ \E x \in Samples \ Events, e \in Events :
         x.v > last.args.u /\ x.t < e.t /\ e.t - x.t < last.args.r /\ x.v < e.v


\* the samples the declustering pass scans, in the order it scans them
Scanned ==
    IF impl = "extreme" THEN Exceedances(self.data, last.args.u)
    ELSE LegacyExceedances(self.data, last.args.u)

\* the sample of ex[a..b] with the largest value, the earliest by timestamp
\* when several share it
Peak(ex, a, b) ==
    LET top == SetMax({ex[k].v : k \in a..b})
        at  == SetMin({ex[k].t : k \in {j \in a..b : ex[j].v = top}})
    IN  CHOOSE x \in {ex[k] : k \in a..b} : x.v = top /\ x.t = at

\* the cluster of sample i, given the set B of the samples that open one
Opener(B, i) == SetMax({b \in B : b <= i})
Closer(B, n, i) == SetMin({b - 1 : b \in {c \in B : c > i}} \cup {n})

\* B holds the samples of ex that open a cluster: the first one, and every
\* sample at least r after the peak of the cluster that precedes it
OpensClusters(B, ex, r) ==
    /\ 1 \in B
    /\ \A i \in 2..Len(ex) :
         i \in B <=> ex[i].t - Peak(ex, Opener(B, i - 1), i - 1).t >= r

\* C3: after a POT extraction with naive declustering the retained events
\* are the peaks of the clusters, one per cluster: the maximum of the
\* cluster, and the earliest sample when several share the maximum.
C3_ClusterPeaks ==
    PeaksOverThreshold(TRUE) =>
      \E B \in SUBSET (1..Len(Scanned)) :
         /\ OpensClusters(B, Scanned, last.args.r)
         /\ Events = {Peak(Scanned, b, Closer(B, Len(Scanned), b)) : b \in B}

\* the rows of the caller's series that fall in year y
InYear(y) == {x \in Samples : Year(x.t) = y}

\* C4: after a BM extraction with yearly blocks there is exactly one extreme
\* per calendar year of the series, it carries the maximum of that year, and
\* it is the earliest sample of the year that does.
C4_YearlyMaxima ==
    (Extracted /\ last.args.method = "BM") =>
      /\ Len(self.extremes) = Cardinality(YearsOf(df))
      /\ \A y \in YearsOf(df) :
           \E e \in Events :
              /\ e \in InYear(y)
              /\ \A x \in InYear(y) : x.v < e.v \/ (x.v = e.v /\ x.t >= e.t)

\* the object as its constructor left it: the same data, no call made yet
Fresh ==
    LET new == IF impl = "extreme" THEN NoObject ELSE LegacyInit(<< >>)
    IN  [new EXCEPT !.data = self.data, !.N = self.N]

\* C6: whatever calls came before, get_extremes ends as the same call on
\* the object fresh from its constructor does, and on success leaves the
\* same extremes (timestamps, values and return periods): two calls with
\* the same parameters yield the same extreme set.
C6_HistoryIndependent ==
    last.op = "get_extremes" =>
      LET first == GetExtremesOf(impl, Fresh, last.args)
      IN  /\ last.raised = first.raised
          /\ last.raised = NoError => self.extremes = first.self.extremes

\* an extraction that follows a completed fit and two other calls
C6_Witness ==
    /\ Extracted
    /\ calls = MaxCalls
    /\ "retvalsum" \notin self.unset
    /\ self.retvalsum.n # Len(self.extremes)
    /\ self.extremes # << >>

\* C7: no step of the object changes the caller's series (its rows, their
\* order, their values).
C7_CallerSeriesUnchanged == [][df' = df]_vars

MismatchedFamily ==
    \/ self.method = "POT" /\ last.args.distribution \in BlockOnly
    \/ self.method = "BM" /\ last.args.distribution \in ThresholdShifted

\* C8: fit, called for a family that does not go with the method of the
\* extraction (GEV or Gumbel after POT; Weibull, Log-normal or Pearson 3
\* after BM), fails with ValueError before any fitting computation runs.
C8_MismatchRejected ==
    (last.op = "fit" /\ "extremes" \notin self.unset /\ MismatchedFamily) =>
      (last.raised = "ValueError" /\ ~last.ran)

\* a call with a method other than POT and BM, or BM blocks other than Y, M, W
UnknownOption(p) ==
    \/ p.method \notin {"POT", "BM"}
    \/ p.method = "BM" /\ p.block \notin {"Y", "M", "W"}

\* the step is a call of get_extremes with parameters that satisfy Bad
Calls(Bad(_)) ==
    /\ calls' = calls + 1
    /\ last'.op = "get_extremes"
    /\ Bad(last'.args)

Rejected(error) ==
    /\ last'.raised = error
    /\ self'.extremes = self.extremes
    /\ ("extremes" \in self'.unset) = ("extremes" \in self.unset)

\* C9 as the specification states it: get_extremes with an unknown method,
\* or with BM and an unknown block, fails with ValueError and produces no
\* extreme set.
C9_UnknownOptionRejected ==
    [][Calls(UnknownOption) => Rejected("ValueError")]_vars

\* C9, amended: the same, for calls in which every keyword argument is one
\* the method knows (an unknown keyword in BM mode fails the assertion on
\* the keywords first, with AssertionError).
C9_UnknownOptionRejectedKnownKeywords ==
    [][Calls(LAMBDA p : UnknownOption(p) /\ ~p.extra) => Rejected("ValueError")]_vars

\* a BM call with an unknown block was refused with ValueError while the
\* object held the extremes of an earlier call
C9_Witness ==
    /\ last.op = "get_extremes"
    /\ last.args.method = "BM" /\ last.args.block = "D" /\ ~last.args.extra
    /\ last.raised = "ValueError"
    /\ calls = 2
    /\ self.extremes # << >>

\* a declustering method other than naive, or BM with month or week blocks
NotImplementedOption(p) ==
    /\ ~p.extra
    /\ \/ p.method = "POT" /\ p.dmethod # "naive"
       \/ p.method = "BM" /\ p.block \in {"M", "W"}

\* C10: get_extremes fails with NotImplementedError whenever a declustering
\* method other than naive is requested in POT mode, and whenever BM mode is
\* requested with month or week blocks.
C10_NotImplemented ==
    (last.op = "get_extremes" /\ NotImplementedOption(last.args)) =>
      last.raised = "NotImplementedError"

\* a well-formed POT call of extreme.py whose threshold is at or above the
\* largest sample
AtOrAboveMaximum ==
    /\ impl = "extreme"
    /\ last.op = "get_extremes"
    /\ last.args.method = "POT" /\ ~last.args.extra
    /\ last.args.decluster => last.args.dmethod = "naive"
    /\ last.args.u >= SetMax({s.v : s \in Samples})

\* C11: POT extraction with a threshold at or above the maximum observed
\* value returns a valid empty extreme set and raises no error, both with
\* decluster=False and with decluster=True.
C11_EmptyExtraction ==
    AtOrAboveMaximum =>
      /\ last.raised = NoError
      /\ "extremes" \notin self.unset
      /\ self.extremes = << >>

\* the number of parameters scipy fits for the family: shape, loc and scale,
\* and loc and scale alone for gumbel_r
ParameterCount(d) == IF d = "Gumbel" THEN 2 ELSE 3

\* the step is a call of fit for a known family on an object that holds
\* fewer extremes than the family has parameters (none at all included)
FitsTooFew ==
    /\ calls' = calls + 1
    /\ last'.op = "fit"
    /\ last'.args.distribution \in Families
    /\ "extremes" \notin self.unset
    /\ Len(self.extremes) < ParameterCount(last'.args.distribution)

\* C12: fit called on an empty extreme set, or on a set with fewer extremes
\* than the family has parameters, fails with an error (InsufficientData)
\* and produces no return-value summary.
C12_InsufficientData ==
    [][FitsTooFew =>
         /\ last'.raised # NoError
         /\ self'.retvalsum = self.retvalsum
         /\ ("retvalsum" \in self'.unset) = ("retvalsum" \in self.unset)]_vars

Advisors == {"pot_residuals", "empirical_threshold", "par_stab_plot"}

\* the step with which a call of an advisor returns
AdvisorReturns ==
    /\ calls' = calls + 1
    /\ last'.op \in Advisors
    /\ last'.raised = NoError

\* the analysis state an object holds: the extremes, the method and the
\* threshold, and whether the attributes exist
Recorded(obj) ==
    [extremes  |-> obj.extremes,
     method    |-> obj.method,
     threshold |-> obj.threshold,
     unset     |-> obj.unset \cap {"extremes", "threshold"}]

\* C13: the threshold advisors (pot_residuals, empirical_threshold,
\* par_stab_plot) never mutate persistent analysis state: after any of them
\* returns, the recorded extremes, method and threshold are the same as
\* before the call.
C13_AdvisorsLeaveState ==
    [][AdvisorReturns =>
         Recorded(self') = Recorded(IF last'.op = "empirical_threshold"
                                    THEN frame'.before ELSE self)]_vars

\* the number of extremes a POT extraction with the arguments of the search
\* yields at threshold u (none when the extraction finds no exceedance)
CountAt(a, u) ==
    LET o == GetExtremesOf(impl, self, SearchCall(a, u))
    IN  IF o.raised = NoError THEN Len(o.self.extremes) ELSE 0

\* u is the smallest threshold u_start + j * u_step, j >= 0, at which the
\* count is at or below the target k
SmallestOnGrid(a, u, k) ==
    \E j \in 0..(MaxLevel + 1) :
       /\ u = a.u_start + j * a.u_step
       /\ CountAt(a, u) <= k
       /\ \A i \in 0..(j - 1) : CountAt(a, a.u_start + i * a.u_step) > k

Returned == frame.op = "empirical_threshold" /\ frame.at = "returned"

\* C14: the square-root rule and the logarithm rule of empirical_threshold
\* each return the smallest threshold of the form u_start + j*u_step
\* (j >= 0) for which the POT extreme count is at or below the rule's
\* target; the increment is u_step with and without declustering.
C14_SmallestThreshold ==
    Returned =>
      /\ SmallestOnGrid(frame.a, frame.tres[2], SqrtTarget(Len(self.data)))
      /\ SmallestOnGrid(frame.a, frame.tres[3], LogTarget(Len(self.data)))

\* C15: empirical_threshold terminates: for every non-empty series, every
\* u_start (0 included) and every u_step > 0, with or without declustering,
\* a search that has begun stops after finitely many extractions and the
\* call ends.
C15_SearchTerminates == (pc = "searching") ~> (pc = "ready")

\* fit has returned from a call with confidence bounds
FitReturned ==
    /\ frame.op = "fit" /\ frame.at = "ended"
    /\ last.op = "fit" /\ last.raised = NoError
    /\ frame.final.bounds

\* the values the retained curves have at return period j
Retained(j) == [i \in DOMAIN frame.mrv |-> frame.mrv[i][j]]

\* C16: Monte Carlo confidence step with trunc=True: when fit returns,
\* exactly k synthetic curves have been retained, and every retained curve
\* has, at every return period of the grid, a value that does not exceed
\* the original fit's return value at k*T (no value of it compares greater
\* than the limit); the bounds of a return period come from the retained
\* values alone.
C16_TruncatedCurves ==
    (FitReturned /\ frame.a.trunc) =>
      /\ Len(frame.mrv) = frame.a.k
      /\ \A i \in DOMAIN frame.mrv : \A j \in 1..GridLen :
            \/ frame.mrv[i][j] = NaN
            \/ frame.uplims[j] = NaN
            \/ frame.mrv[i][j] <= frame.uplims[j]
      /\ \A row \in Range(self.retvalsum.rows) :
            /\ row.lower = Interval(Retained(row.T)).lower
            /\ row.upper = Interval(Retained(row.T)).upper

\* fit has returned MaxTrials curves within the limits after the filter had
\* dropped a curve
C16_Witness ==
    /\ FitReturned /\ frame.a.trunc
    /\ frame.a.k = MaxTrials
    /\ frame.uplims = Curve(1, MaxCurve)
    /\ frame.discarded
    /\ frame.mrv[1] = Curve(1, 0)
    /\ self.retvalsum.rows # << >>

\* C17: the Monte Carlo re-sampling loop is bounded: under truncation fit
\* always terminates, with k accepted curves or, once a budget of rejected
\* trials is used up, with an error (FitDidNotConverge); it never loops
\* forever when every synthetic curve is rejected.
C17_SamplingTerminates == (pc = "sampling") ~> (pc = "ready")

\* C18: after a successful fit the return-value summary contains no row
\* with a non-finite entry: every row whose return value, lower bound or
\* upper bound is NaN or +/-infinity has been dropped.
C18_FiniteRows ==
    (frame.op = "fit" /\ frame.at = "ended" /\ last.raised = NoError) =>
      \A row \in Range(self.retvalsum.rows) : ~NonFinite(row)

\* the step is a successful call of fit that follows a successful
\* extraction: the extremes are those the call before has extracted
FitsExtracted ==
    /\ last.op = "get_extremes" /\ last.raised = NoError
    /\ calls' = calls + 1
    /\ last'.op = "fit" /\ last'.raised = NoError

\* C19: the point estimate uses rate = extremeCount / yearsObserved, and
\* the return value at T is the fitted quantile function at
\* 1 - 1/(rate*T) plus the extraction threshold when and only when the
\* extremes were extracted by POT; for BM-extracted extremes no threshold
\* is added.
C19_PointEstimate ==
    [][FitsExtracted =>
         /\ self'.retvalsum.n = Len(self.extremes)
         /\ self'.retvalsum.N = self.N
         /\ self'.retvalsum.shifted <=> last.args.method = "POT"]_vars

\* C20: round trip: after fitting GPD to POT-extracted exceedances,
\* inverting the fit at the return period T = 1/rate (quantile argument 0)
\* yields the threshold plus the fitted lower support bound of the
\* excesses.
C20_RoundTrip ==
    (frame.op = "ret_val" /\ frame.t = FDiv(FromInt(1), frame.rate)) =>
      frame.value = [u |-> self.threshold, ppf |-> "loc"]

\* C21: Monte Carlo confidence bounds bracket the point estimate: in every
\* row kept in the summary of a fit with confidence bounds, lower <= return
\* value <= upper, the bounds being the normal interval of the k retained
\* curves at that return period.
C21_BoundsBracket ==
    FitReturned =>
      \A row \in Range(self.retvalsum.rows) :
         /\ row.rv # Inf
         /\ AtLeast(row.rv, row.lower)
         /\ AtMost(row.rv, row.upper)

\* the object has been constructed
Built == pc = "ready" /\ frame.op = "EVA"

\* C22: in an object that has been constructed, N equals the number of
\* distinct calendar years that hold at least one observation of the
\* series, and when a year between the first and the last observed year
\* holds none, a warning that names the missing years has been issued; N
\* stays the same through the calls that follow.
C22_YearsObserved ==
    Built =>
      /\ self.N = Cardinality(YearsOf(df))
      /\ MissingYears(df) # {} => frame.warnings = {MissingYears(df)}

\* the step is a call of get_extremes
Extracts == calls' = calls + 1 /\ last'.op = "get_extremes"

\* C23: the recorded method and threshold are those of the call that
\* produced the recorded extreme set.  A successful call records its method,
\* its u as the threshold when it is POT, and no threshold when it is BM (the
\* threshold of an earlier POT call does not stay in effect); a failing
\* call leaves the extremes, the method and the threshold as they were.
C23_MethodAndThreshold ==
    [][Extracts =>
         IF last'.raised = NoError
         THEN /\ self'.method = last'.args.method
              /\ IF last'.args.method = "POT"
                 THEN "threshold" \notin self'.unset /\ self'.threshold = last'.args.u
                 ELSE "threshold" \in self'.unset
         ELSE Recorded(self') = Recorded(self)]_vars

\* a call of pot_residuals has ended
ResidualsEnded == last.op = "pot_residuals" /\ frame.op = "pot_residuals"

\* the rows of a frame as pairs of timestamp and value
Pairs(rows) == {[t |-> x.t, v |-> x.v] : x \in Range(rows)}

\* what get_extremes extracts from the series for POT with the threshold u
\* and the decluster flag of the call
ExtractedAt(u) ==
    GetExtremesOf(impl, [self EXCEPT !.data = SortIndex(df)],
                  Args("POT", u, last.args.r, last.args.decluster, "naive", "Y", FALSE))

\* C24: mean residual life: for every candidate threshold kept, the samples
\* whose mean excess is reported are the extremes get_extremes returns for
\* POT with that threshold and the same decluster flag (without declustering
\* exactly the samples with value > u_i), and a candidate equal to the
\* observed maximum is processed without error.
C24_MeanResidualLife ==
    ResidualsEnded =>
      /\ last.raised = NoError
      /\ Len(frame.samples) = Len(frame.u)
      /\ \A i \in DOMAIN frame.samples :
            /\ ExtractedAt(frame.u[i]).raised = NoError
            /\ Pairs(frame.samples[i]) = Pairs(ExtractedAt(frame.u[i]).self.extremes)
            /\ ~last.args.decluster =>
                 Pairs(frame.samples[i]) = {x \in Samples : x.v > frame.u[i]}

\* no call of get_extremes has succeeded on the object: it is fresh, or the
\* one call made on it was a get_extremes or a fit that raised
NeverExtracted ==
    /\ pc = "ready"
    /\ \/ calls = 0
       \/ calls = 1 /\ last.op \in {"get_extremes", "fit"} /\ last.raised # NoError

\* C25: fit called on an object on which no get_extremes call has succeeded
\* yet fails with an error and leaves no return-value summary.
C25_FitNeedsExtremes ==
    [][(NeverExtracted /\ calls' = calls + 1 /\ last'.op = "fit") =>
         (last'.raised # NoError /\ "retvalsum" \in self'.unset)]_vars

\* the samples of the series above the threshold of the latest call
Above_u == {x \in Samples : x.v > last.args.u}

\* C26: naive declustering only selects: the declustered extremes are
\* samples of the series with a value above u (the exceedances the call
\* without declustering extracts), there is one whenever there is an
\* exceedance, and one of them has the largest value of the exceedances.
C26_DeclusteringSelects ==
    PeaksOverThreshold(TRUE) =>
      /\ Events \subseteq Above_u
      /\ Above_u # {} =>
           \E e \in Events : e.v = SetMax({x.v : x \in Above_u})

\* fit has returned a summary over the grid
GridReported ==
    /\ last.op = "fit" /\ last.raised = NoError
    /\ frame.op = "fit" /\ frame.at = "grid"

\* the summary holds a row for the return period T
Kept(T) == \E row \in Range(self.retvalsum.rows) : row.T = T

\* rate * T >= 1 for the rate n / N, in exact arithmetic
Due(n, T) == n * T >= self.N

\* the grid periods with rate * T >= 1 for the rate of the extremes
DuePeriods == {T \in Range(Grid) : Due(Len(self.extremes), T)}

\* C27 as stated: the summary holds a row for a grid period T only if
\* rate * T >= 1, and the smallest return period reported is the smallest
\* grid value that is at least 1 / rate.
C27_ReportedPeriods ==
    GridReported =>
      /\ \A T \in Range(Grid) : Kept(T) => T \in DuePeriods
      /\ DuePeriods # {} => Kept(SetMin(DuePeriods))

\* the bounds of the return period T are numbers: at least two curves were
\* retained, each defined at T, and not all of them give the location
BoundsDefined(T) ==
    /\ Len(frame.draws) >= 2
    /\ \A i \in DOMAIN frame.draws : Due(frame.draws[i], T)
    /\ \E i \in DOMAIN frame.draws : frame.draws[i] * T > self.N

\* C27, amended: the summary holds a row for a grid period T only if
\* rate * T >= 1.  Without confidence bounds it holds one for each such
\* period, so the smallest period reported is the smallest grid value that
\* is at least 1 / rate; with confidence bounds it holds one exactly where,
\* in addition, the bounds are defined.
C27_ReportedPeriodsWithBounds ==
    GridReported =>
      \A T \in Range(Grid) :
         Kept(T) <=> (T \in DuePeriods /\ (last.args.confidence => BoundsDefined(T)))

\* a fit with confidence bounds has reported rows, and has dropped a grid
\* period with rate * T >= 1 at which a retained curve is undefined
C27_Witness ==
    /\ GridReported /\ last.args.confidence
    /\ self.retvalsum.rows # << >>
    /\ \E T \in DuePeriods :
         ~Kept(T) /\ \E i \in DOMAIN frame.draws : ~Due(frame.draws[i], T)

=============================================================================
